---------------------------- MODULE Spec2Model ----------------------------
(***************************************************************************)
(* xdg-terminal-exec (src/src/main.rs): one run of the launcher.           *)
(*                                                                         *)
(* The environment the run reads (the XDG_CURRENT_DESKTOP value, the       *)
(* command line, the preference-list files under the config roots, the     *)
(* descriptor files under the data roots, the executables on the search    *)
(* path) is fixed by Init and never changes.  The program's own state is   *)
(* the position of main, the desktop ids, the seen set and the list the    *)
(* for_each in progress walks.  `trace` records what each call of the      *)
(* `handle` closure did.                                                   *)
(*                                                                         *)
(* Strings are TLA+ strings; an Option is a set with at most one element   *)
(* ({} is None, {v} is Some(v)).                                           *)
(***************************************************************************)
EXTENDS Naturals, Sequences, FiniteSets, TLC

VARIABLES
    XDG_CURRENT_DESKTOP,  \* the environment variable: [kind, value]
    argv,               \* env::args().skip(1)
    baseDirsOk,         \* whether xdg::BaseDirectories can be built
    configFiles,        \* per config root: file name -> [readable, text]
    dataRoots,          \* per data root: [exists, listable, files]
    executables,        \* the names which::which resolves
    pc,                 \* position in main
    args,               \* main's `args`
    desktops,           \* main's `desktops`
    seen,               \* main's `seen`
    entries,            \* the list the current for_each walks
    idx,                \* next position in `entries`
    exitStatus,         \* Option: the status this program exits with
    error,              \* Option: the Err main returns
    trace               \* one record per call of `handle`

envVars == <<XDG_CURRENT_DESKTOP, argv, baseDirsOk, configFiles, dataRoots, executables>>
progVars == <<pc, args, desktops, seen, entries, idx, exitStatus, error, trace>>
vars == <<XDG_CURRENT_DESKTOP, argv, baseDirsOk, configFiles, dataRoots, executables,
          pc, args, desktops, seen, entries, idx, exitStatus, error, trace>>

-----------------------------------------------------------------------------
(* Bounds of the explored environments. *)
MaxEnvLen == 5
MaxLines == 2
MaxItemsLen == 3
MaxArgs == 2
NumConfigRoots == 2

(* Exit statuses of a Rust process. *)
ExitSuccess == 0
ExitFailure == 1
ExitPanic == 101

XDG_TERMINALS_LIST == "xdg-terminals.list"

-----------------------------------------------------------------------------
(* Library functions the program calls. *)

\* The index of the first occurrence of the one-character string c in s, or 0.
RECURSIVE FindFrom(_, _, _)
FindFrom(s, c, i) ==
    IF i > Len(s) THEN 0
    ELSE IF SubSeq(s, i, i) = c THEN i
    ELSE FindFrom(s, c, i + 1)

\* str::split(c): every piece between separators, empty ones included.
RECURSIVE Split(_, _)
Split(s, c) ==
    LET i == FindFrom(s, c, 1) IN
    IF i = 0 THEN <<s>>
    ELSE <<SubSeq(s, 1, i - 1)>> \o Split(SubSeq(s, i + 1, Len(s)), c)

\* str::split_terminator(c): as split, without a trailing empty piece.
SplitTerminator(s, c) ==
    LET p == Split(s, c) IN
    IF p[Len(p)] = "" THEN SubSeq(p, 1, Len(p) - 1) ELSE p

\* str::lines(): the text's lines, without their terminators: a line ends
\* at "\n" or "\r\n", and a last line needs no terminator.
Lines(text) ==
    LET pieces == Split(text, "\n")
        n == Len(pieces)
        strip(p) == IF Len(p) > 0 /\ SubSeq(p, Len(p), Len(p)) = "\r"
                    THEN SubSeq(p, 1, Len(p) - 1) ELSE p
        ended == [i \in 1..(n - 1) |-> strip(pieces[i])]
    IN  IF pieces[n] = "" THEN ended ELSE ended \o <<pieces[n]>>

\* [String]::join(sep)
RECURSIVE Join(_, _)
Join(strs, sep) ==
    IF strs = <<>> THEN ""
    ELSE IF Len(strs) = 1 THEN strs[1]
    ELSE strs[1] \o sep \o Join(Tail(strs), sep)

\* Iterator::flat_map over a sequence: the concatenation of f's results.
RECURSIVE Flatten(_)
Flatten(seqs) ==
    IF seqs = <<>> THEN <<>> ELSE Head(seqs) \o Flatten(Tail(seqs))

Range(f) == {f[i] : i \in DOMAIN f}

\* Path::components(), by which PathBuf's Eq and Hash compare: repeated
\* separators, a trailing separator and inner "." are normalised away.
Components(path) ==
    LET pieces == Split(path, "/")
        isNormal(p) == p # "" /\ p # "."
        normal == SelectSeq(pieces, isNormal)
    IN  IF Len(path) > 0 /\ SubSeq(path, 1, 1) = "/" THEN <<"/">> \o normal
        ELSE IF pieces[1] = "." THEN <<".">> \o normal
        ELSE normal

\* Section::attr(name): Some(value) or None.
Attr(section, name) ==
    IF name \in DOMAIN section THEN {section[name]} ELSE {}

\* which::which(name).is_ok()
Which(name) == name \in executables

\* BaseDirectories::find_data_file(path): the first data root under which
\* the path names something.  The roots hold regular files only: a path
\* whose last piece is a name, after nothing but "" and "." pieces, names
\* that file; a path of "" and "." pieces alone names the root directory
\* itself, which exists and is no descriptor.
RECURSIVE FindIn(_, _, _)
FindIn(roots, name, r) ==
    IF r > Len(roots) THEN {}
    ELSE LET hits == {i \in DOMAIN roots[r].files : roots[r].files[i].name = name}
         IN  IF hits # {} THEN {roots[r].files[CHOOSE i \in hits : TRUE]}
             ELSE FindIn(roots, name, r + 1)

FindDataFile(path) ==
    LET pieces == Split(path, "/")
        last == pieces[Len(pieces)]
        blank(i) == pieces[i] \in {"", "."}
    IN  IF Len(path) > 0 /\ SubSeq(path, 1, 1) = "/" THEN {}
        ELSE IF \E i \in 1..(Len(pieces) - 1) : ~blank(i) THEN {}
        ELSE IF last = ".." THEN {}
        ELSE IF last \in {"", "."}
             THEN IF \E r \in DOMAIN dataRoots : dataRoots[r].exists
                  THEN {[name |-> path, parses |-> FALSE, attrs |-> <<>>]}
                  ELSE {}
        ELSE FindIn(dataRoots, last, 1)

-----------------------------------------------------------------------------
(* The program's functions. *)

\* desktops() without its filter of empty tokens.
DesktopsKeepEmpty ==
    IF XDG_CURRENT_DESKTOP.kind # "unicode" THEN [ok |-> FALSE, ids |-> <<>>]
    ELSE [ok |-> TRUE, ids |-> Split(XDG_CURRENT_DESKTOP.value, ":")]

\* desktops(): Err when the variable is unset or not Unicode.
Desktops ==
    IF XDG_CURRENT_DESKTOP.kind # "unicode" THEN [ok |-> FALSE, ids |-> <<>>]
    ELSE LET nonEmpty(s) == s # ""
         IN  [ok |-> TRUE,
              ids |-> SelectSeq(Split(XDG_CURRENT_DESKTOP.value, ":"), nonEmpty)]

config_file_names(ds) ==
    [i \in 1..Len(ds) |-> ds[i] \o "-" \o XDG_TERMINALS_LIST] \o <<XDG_TERMINALS_LIST>>

\* config_paths with the loops exchanged: for each file name, each root.
config_paths_name_major(names) ==
    LET ofName(i) == [r \in 1..Len(configFiles) |-> [root |-> r, name |-> names[i]]]
        all == Flatten([i \in 1..Len(names) |-> ofName(i)])
        exists(p) == p.name \in DOMAIN configFiles[p.root]
    IN  SelectSeq(all, exists)

\* config_paths: for each root, each file name; those that exist.
config_paths(names) ==
    LET ofRoot(r) == [i \in 1..Len(names) |-> [root |-> r, name |-> names[i]]]
        all == Flatten([r \in 1..Len(configFiles) |-> ofRoot(r)])
        exists(p) == p.name \in DOMAIN configFiles[p.root]
    IN  SelectSeq(all, exists)

\* configured_entries that passes over the files it cannot read.
configured_entries_skip_unreadable(ds) ==
    LET paths == config_paths(config_file_names(ds))
        file(p) == configFiles[p.root][p.name]
        readable(p) == file(p).readable
        read == SelectSeq(paths, readable)
    IN  [ok |-> TRUE,
         paths |-> Flatten([i \in 1..Len(read) |-> Lines(file(read[i]).text)])]

\* configured_entries: Err when a file cannot be read.
configured_entries(ds) ==
    LET paths == config_paths(config_file_names(ds))
        file(p) == configFiles[p.root][p.name]
    IN  IF \E i \in 1..Len(paths) : ~file(paths[i]).readable
        THEN [ok |-> FALSE, paths |-> <<>>]
        ELSE [ok |-> TRUE,
              paths |-> Flatten([i \in 1..Len(paths) |-> Lines(file(paths[i]).text)])]

\* present_entries: Err when an existing root cannot be listed.
present_entries ==
    LET exists(d) == d.exists
        dirs == SelectSeq(dataRoots, exists)
    IN  IF \E i \in 1..Len(dirs) : ~dirs[i].listable
        THEN [ok |-> FALSE, paths |-> <<>>]
        ELSE [ok |-> TRUE,
              paths |-> Flatten([i \in 1..Len(dirs) |->
                           [j \in 1..Len(dirs[i].files) |-> dirs[i].files[j].name]])]

\* `all` in place of the outer `any`: every item is a current desktop.
AllItemsAreDesktops(value, ds) ==
    \A item \in Range(SplitTerminator(value, ";")) : \E d \in Range(ds) : d = item

\* One item of a NotShowIn / OnlyShowIn value is a current desktop.
AnyItemIsDesktop(value, ds) ==
    \E item \in Range(SplitTerminator(value, ";")) : \E d \in Range(ds) : d = item

\* entry(path, desktops): Some(entry) or None.
entry(file, ds) ==
    IF ~file.parses THEN {}
    ELSE LET section == file.attrs IN
         IF Attr(section, "Hidden") = {"true"} THEN {}
         ELSE IF \E v \in Attr(section, "NotShowIn") : AnyItemIsDesktop(v, ds) THEN {}
         ELSE IF \E v \in Attr(section, "OnlyShowIn") : ~AnyItemIsDesktop(v, ds) THEN {}
         ELSE IF \E t \in Attr(section, "TryExec") : ~Which(t) THEN {}
         ELSE {section}

\* The flag with the two attributes looked up in the other order.
exec_arg_plain_first(section) ==
    IF Attr(section, "ExecArg") # {} THEN section["ExecArg"]
    ELSE IF Attr(section, "X-ExecArg") # {} THEN section["X-ExecArg"]
    ELSE "-e"

\* The exec_arg of run: X-ExecArg, else ExecArg, else "-e".
exec_arg(section) ==
    IF Attr(section, "X-ExecArg") # {} THEN section["X-ExecArg"]
    ELSE IF Attr(section, "ExecArg") # {} THEN section["ExecArg"]
    ELSE "-e"

\* run(entry, args): the command it builds and how the call ends.  Without
\* `Exec` the expect panics before a command is complete; `started` is
\* whether the exec call replaces the process (it returns only if not).
run(section, as, started) ==
    IF Attr(section, "Exec") = {} THEN [cmd |-> {}, ends |-> "panic"]
    ELSE LET exec == section["Exec"]
             string == IF as = <<>> THEN exec
                       ELSE Join(<<exec, exec_arg(section)>> \o as, " ")
         IN  [cmd |-> {<<"sh", "-c", string>>},
              ends |-> IF started THEN "replaced" ELSE "exec_failed"]

-----------------------------------------------------------------------------
(* main, one step at a time. *)

\* main returns the Err of one of its `?`: the run ends with a failure status.
Fail(type, from) ==
    /\ pc' = "exit"
    /\ error' = {[type |-> type, from |-> from]}
    /\ exitStatus' = {ExitFailure}

\* Lines 117-120: seen, args, desktops()?, BaseDirectories::with_prefix()?.
Start ==
    /\ pc = "main"
    /\ seen' = {}
    /\ args' = argv
    /\ IF ~Desktops.ok
       THEN Fail("VarError", "desktops") /\ UNCHANGED desktops
       ELSE /\ desktops' = Desktops.ids
            /\ IF ~baseDirsOk
               THEN Fail("BaseDirectoriesError", "with_prefix")
               ELSE pc' = "configured_entries" /\ UNCHANGED <<error, exitStatus>>
    /\ UNCHANGED <<entries, idx, trace>>
    /\ UNCHANGED envVars

\* Line 129, configured_entries(&desktops)?: every list is read before the
\* first candidate is handled.
ReadConfigured ==
    /\ pc = "configured_entries"
    /\ LET r == configured_entries(desktops) IN
       IF ~r.ok
       THEN Fail("io::Error", "configured_entries") /\ UNCHANGED <<entries, idx>>
       ELSE /\ entries' = r.paths
            /\ idx' = 1
            /\ pc' = "handle_configured"
            /\ UNCHANGED <<error, exitStatus>>
    /\ UNCHANGED <<args, desktops, seen, trace>>
    /\ UNCHANGED envVars

\* An insert that forgets the key.
SeenInsertNothing(set, key) == set

\* HashSet::insert(key): the set afterwards.
SeenInsert(set, key) == set \cup {key}

\* A launch whose success returns to the for_each like a failure.
AfterRunWalksOn(step) ==
    CASE step = "panic" -> "panicked"
      [] OTHER -> pc

\* Where main is once run has been left: a panic unwinds out of main, a
\* started exec never returns, anything else returns to the for_each.
AfterRun(step) ==
    CASE step = "panic" -> "panicked"
      [] step = "replaced" -> "replaced"
      [] OTHER -> pc

\* The `handle` closure on one path: the insert into seen, find_data_file,
\* entry and run, each reached only if the one before gave something.
\* `started` is whether run's exec call replaces the process.
handle(path, source, started) ==
    LET key == Components(path)
        found == IF key \in seen THEN {} ELSE FindDataFile(path)
        passed == UNION {entry(f, desktops) : f \in found}
        ran == {run(e, args, started) : e \in passed}
        cmds == UNION {r.cmd : r \in ran}
        step == IF key \in seen THEN "duplicate"
                ELSE IF found = {} THEN "not_found"
                ELSE IF passed = {} THEN "rejected"
                ELSE (CHOOSE r \in ran : TRUE).ends
    IN  /\ seen' = SeenInsert(seen, key)
        /\ trace' = Append(trace, [id |-> path, source |-> source, step |-> step,
                                   file |-> found, cmd |-> cmds])
        /\ idx' = idx + 1
        /\ pc' = AfterRun(step)
        /\ exitStatus' = IF step = "panic" THEN {ExitPanic} ELSE exitStatus
        /\ UNCHANGED <<args, desktops, entries, error>>
        /\ UNCHANGED envVars

\* A for_each that walks the configured entries from the back.
HandleConfiguredReversed ==
    /\ pc = "handle_configured"
    /\ idx <= Len(entries)
    /\ \E started \in BOOLEAN :
          handle(entries[Len(entries) + 1 - idx], "configured", started)

\* Line 129, for_each(&mut handle) over the configured entries.
HandleConfigured ==
    /\ pc = "handle_configured"
    /\ idx <= Len(entries)
    /\ \E started \in BOOLEAN : handle(entries[idx], "configured", started)

\* Line 130, present_entries(&dirs)?: the data roots are listed once the
\* configured entries are through.
ListPresent ==
    /\ pc = "handle_configured"
    /\ idx > Len(entries)
    /\ LET r == present_entries IN
       IF ~r.ok
       THEN Fail("io::Error", "present_entries") /\ UNCHANGED <<entries, idx>>
       ELSE /\ entries' = r.paths
            /\ idx' = 1
            /\ pc' = "handle_present"
            /\ UNCHANGED <<error, exitStatus>>
    /\ UNCHANGED <<args, desktops, seen, trace>>
    /\ UNCHANGED envVars

\* Line 130, for_each(&mut handle) over the present entries.
HandlePresent ==
    /\ pc = "handle_present"
    /\ idx <= Len(entries)
    /\ \E started \in BOOLEAN : handle(entries[idx], "present", started)

\* Line 131, Ok(()).
Return ==
    /\ pc = "handle_present"
    /\ idx > Len(entries)
    /\ pc' = "exit"
    /\ exitStatus' = {ExitSuccess}
    /\ UNCHANGED <<args, desktops, seen, entries, idx, error, trace>>
    /\ UNCHANGED envVars

Next ==
    \/ Start
    \/ ReadConfigured
    \/ HandleConfigured
    \/ ListPresent
    \/ HandlePresent
    \/ Return

\* The program before main runs.
InitProgram ==
    /\ pc = "main"
    /\ args = <<>>
    /\ desktops = <<>>
    /\ seen = {}
    /\ entries = <<>>
    /\ idx = 0
    /\ exitStatus = {}
    /\ error = {}
    /\ trace = <<>>

-----------------------------------------------------------------------------
(* The environments explored. *)

Unset == [kind |-> "unset", value |-> ""]
NotUnicode == [kind |-> "not_unicode", value |-> ""]
Unicode(v) == [kind |-> "unicode", value |-> v]

\* The strings of at most n characters of the alphabet.
RECURSIVE StringsUpTo(_, _)
StringsUpTo(alphabet, n) ==
    IF n = 0 THEN {""}
    ELSE LET shorter == StringsUpTo(alphabet, n - 1)
         IN  shorter \cup {s \o c : s \in shorter, c \in alphabet}

SeqsUpTo(S, n) == UNION {[1..k -> S] : k \in 0..n}

\* The sequences over S, at most n long, in which nothing repeats.
DistinctSeqsUpTo(S, n) ==
    {q \in SeqsUpTo(S, n) : \A i, j \in DOMAIN q : i # j => q[i] # q[j]}

\* A text of complete lines.
RECURSIVE TextOf(_)
TextOf(ls) == IF ls = <<>> THEN "" ELSE Head(ls) \o "\n" \o TextOf(Tail(ls))

Readable(text) == [readable |-> TRUE, text |-> text]
Unreadable == [readable |-> FALSE, text |-> ""]

Descriptor(name, attrs) == [name |-> name, parses |-> TRUE, attrs |-> attrs]
Garbage(name) == [name |-> name, parses |-> FALSE, attrs |-> <<>>]
Launchable(name) == Descriptor(name, "Exec" :> ("term-" \o name))
HiddenOne(name) == Descriptor(name, "Exec" :> ("term-" \o name) @@ "Hidden" :> "true")
NoExec(name) == Descriptor(name, "Hidden" :> "false")

NoRoot == [exists |-> FALSE, listable |-> FALSE, files |-> <<>>]
Root(files) == [exists |-> TRUE, listable |-> TRUE, files |-> files]
Unlistable(files) == [exists |-> TRUE, listable |-> FALSE, files |-> files]

\* The listings of a root: the files named by a sequence of distinct names,
\* each of one of its kinds (kinds[x]: the files a name x may be).
Listings(names, kinds) ==
    UNION {{f \in [1..Len(q) -> UNION {kinds[x] : x \in names}] :
               \A i \in 1..Len(q) : f[i] \in kinds[q[i]]}
           : q \in DistinctSeqsUpTo(names, Cardinality(names))}

\* The ways a config root holds, or does not hold, the file of that name.
FileOptions(name, contents) == {<<>>} \cup {name :> c : c \in contents}

\* The walk: preference lists of up to MaxLines lines, one of which names
\* the same path as another in other words, and one list with a "\r\n" and
\* an unterminated last line; descriptors of every kind; a second data root
\* that shadows, fails to list or is missing.
WalkNames == {"a", "b"}
WalkKinds == [x \in WalkNames |-> {Launchable(x), HiddenOne(x), NoExec(x), Garbage(x)}]
WalkLines == {"a", "b", "a/"}
WalkTexts == {TextOf(ls) : ls \in SeqsUpTo(WalkLines, MaxLines)} \cup {"b\r\na"}
WalkConfigRoots ==
    {<<perDesktop @@ generic>> :
        perDesktop \in FileOptions("G-" \o XDG_TERMINALS_LIST, {Unreadable, Readable("b\n")}),
        generic \in FileOptions(XDG_TERMINALS_LIST,
                                {Unreadable} \cup {Readable(t) : t \in WalkTexts})}
WalkDataRoots ==
    {<<first, second>> :
        first \in {NoRoot} \cup UNION {{Root(f), Unlistable(f)} : f \in Listings(WalkNames, WalkKinds)},
        second \in {NoRoot, Unlistable(<<>>), Root(<<Launchable("a"), Launchable("c")>>)}}

WalkEnvironment ==
    /\ XDG_CURRENT_DESKTOP \in {Unset, Unicode("G")}
    /\ argv = <<"vim">>
    /\ baseDirsOk \in BOOLEAN
    /\ configFiles \in WalkConfigRoots
    /\ dataRoots \in WalkDataRoots
    /\ executables = {"sh"}

Init == WalkEnvironment /\ InitProgram

Spec == Init /\ [][Next]_vars


\* One preference list and one data root with one launchable descriptor.
OneList == <<XDG_TERMINALS_LIST :> Readable("a\n")>>
OneRoot(file) == <<Root(<<file>>)>>

\* The desktops: every value of up to MaxEnvLen characters, unset, and not
\* Unicode.
DesktopsEnvironment ==
    /\ XDG_CURRENT_DESKTOP \in {Unset, NotUnicode}
            \cup {Unicode(v) : v \in StringsUpTo({"G", "k", ":"}, MaxEnvLen)}
    /\ argv = <<>>
    /\ baseDirsOk = TRUE
    /\ configFiles = OneList
    /\ dataRoots = OneRoot(Launchable("a"))
    /\ executables = {"sh"}

InitDesktops == DesktopsEnvironment /\ InitProgram

SpecDesktops == InitDesktops /\ [][Next]_vars

\* The preference lists: NumConfigRoots roots, each with or without the
\* list of each of two desktops and the generic one.
ConfigRootOptions ==
    {g @@ k @@ generic :
        g \in FileOptions("G-" \o XDG_TERMINALS_LIST, {Readable("a\n")}),
        k \in FileOptions("K-" \o XDG_TERMINALS_LIST, {Readable("b\n")}),
        generic \in FileOptions(XDG_TERMINALS_LIST, {Readable("a\n"), Readable("b\na\n")})}

ConfigEnvironment ==
    /\ XDG_CURRENT_DESKTOP \in {Unicode("G:K"), Unicode("K:G")}
    /\ argv = <<>>
    /\ baseDirsOk = TRUE
    /\ configFiles \in [1..NumConfigRoots -> ConfigRootOptions]
    /\ dataRoots = OneRoot(Launchable("c"))
    /\ executables = {"sh"}

InitConfig == ConfigEnvironment /\ InitProgram

SpecConfig == InitConfig /\ [][Next]_vars

\* The filter: descriptors with and without each attribute it reads, list
\* values of up to MaxItemsLen characters, and a descriptor that shadows
\* another or sits behind a missing root.
AttrOptions(name, values) == {<<>>} \cup {name :> v : v \in values}
ShowInValues == StringsUpTo({"G", ";"}, MaxItemsLen) \cup {"K", "g", "GK", "G;K", "K;G;"}
FilterAttrs ==
    {h @@ n @@ o @@ t @@ ("Exec" :> "term") :
        h \in AttrOptions("Hidden", {"true", "false"}),
        n \in AttrOptions("NotShowIn", ShowInValues),
        o \in AttrOptions("OnlyShowIn", ShowInValues),
        t \in AttrOptions("TryExec", {"sh", "nonexistent-binary-xyz"})}

EntryEnvironment ==
    /\ XDG_CURRENT_DESKTOP \in {Unicode(""), Unicode("G"), Unicode("G:K")}
    /\ argv = <<>>
    /\ baseDirsOk = TRUE
    /\ configFiles = OneList
    /\ dataRoots \in {OneRoot(Descriptor("a", attrs)) : attrs \in FilterAttrs}
            \cup {<<Root(<<Garbage("a")>>), Root(<<Launchable("a")>>)>>,
                  <<Root(<<HiddenOne("a")>>), Root(<<Launchable("a")>>)>>,
                  <<NoRoot, Root(<<Launchable("a")>>)>>}
    /\ executables = {"sh"}

InitEntry == EntryEnvironment /\ InitProgram

SpecEntry == InitEntry /\ [][Next]_vars

\* The command: descriptors with and without Exec, ExecArg and X-ExecArg,
\* and up to MaxArgs arguments.
CommandAttrs ==
    {e @@ a @@ x :
        e \in AttrOptions("Exec", {"foo-term", "foo-term --title T"}),
        a \in AttrOptions("ExecArg", {"-x"}),
        x \in AttrOptions("X-ExecArg", {"--"})}

RunEnvironment ==
    /\ XDG_CURRENT_DESKTOP = Unicode("G")
    /\ argv \in SeqsUpTo({"vim", "file.txt"}, MaxArgs)
    /\ baseDirsOk = TRUE
    /\ configFiles = OneList
    /\ dataRoots \in {OneRoot(Descriptor("a", attrs)) : attrs \in CommandAttrs}
    /\ executables = {"sh"}

InitRun == RunEnvironment /\ InitProgram

SpecRun == InitRun /\ [][Next]_vars

-----------------------------------------------------------------------------
(* What the claims speak of. *)

\* The candidate sequence of the run's environment.
Configured == configured_entries(Desktops.ids).paths
Discovered == present_entries.paths
Merged == Configured \o Discovered

TraceIds == [i \in DOMAIN trace |-> trace[i].id]
IsPrefix(p, q) == Len(p) <= Len(q) /\ \A i \in DOMAIN p : p[i] = q[i]
Walking == pc \in {"handle_configured", "handle_present"}

\* The maximal runs of characters other than c in s, as <<first, last>>.
Runs(s, c) ==
    {r \in (1..Len(s)) \X (1..Len(s)) :
        /\ r[1] <= r[2]
        /\ \A k \in r[1]..r[2] : SubSeq(s, k, k) # c
        /\ r[1] = 1 \/ SubSeq(s, r[1] - 1, r[1] - 1) = c
        /\ r[2] = Len(s) \/ SubSeq(s, r[2] + 1, r[2] + 1) = c}

\* The non-empty tokens of s between separators c, in order.
Tokens(s, c) ==
    LET runs == Runs(s, c)
        nth(k) == CHOOSE r \in runs : Cardinality({q \in runs : q[1] < r[1]}) = k - 1
    IN  [k \in 1..Cardinality(runs) |-> SubSeq(s, nth(k)[1], nth(k)[2])]

\* The filter as the specification words it.
Accepts(attrs, ds) ==
    /\ ~("Hidden" \in DOMAIN attrs /\ attrs["Hidden"] = "true")
    /\ "NotShowIn" \in DOMAIN attrs =>
           Range(Tokens(attrs["NotShowIn"], ";")) \cap Range(ds) = {}
    /\ "OnlyShowIn" \in DOMAIN attrs =>
           Range(Tokens(attrs["OnlyShowIn"], ";")) \cap Range(ds) # {}
    /\ "TryExec" \in DOMAIN attrs => attrs["TryExec"] \in executables

\* The i-th call of handle went as far as run / as far as the exec call.
Ran(i) == trace[i].step \in {"panic", "exec_failed", "replaced"}
Attempted(i) == trace[i].step \in {"exec_failed", "replaced"}
FirstOccurrence(i) ==
    \A j \in 1..(i - 1) : Components(trace[j].id) # Components(trace[i].id)
PassesFilter(id) ==
    \E f \in FindDataFile(id) : f.parses /\ Accepts(f.attrs, Desktops.ids)
Ended == pc \in {"exit", "panicked", "replaced"}
Last == trace[Len(trace)]


\* The names of the preference lists, and the lists that exist, as the
\* specification words them.
PreferenceNames ==
    LET ds == Tokens(XDG_CURRENT_DESKTOP.value, ":")
    IN  [k \in 1..(Len(ds) + 1) |->
            IF k <= Len(ds) THEN ds[k] \o "-xdg-terminals.list" ELSE "xdg-terminals.list"]
ExistingLists ==
    {f \in (DOMAIN configFiles) \X (DOMAIN PreferenceNames) :
        PreferenceNames[f[2]] \in DOMAIN configFiles[f[1]]}
IsPerDesktop(f) == f[2] < Len(PreferenceNames)

\* The lines of a set of lists, the lists taken by ascending rank.
RECURSIVE LinesByRank(_, _)
LinesByRank(files, rank) ==
    IF files = {} THEN <<>>
    ELSE LET f == CHOOSE g \in files : \A h \in files : rank[g] <= rank[h]
         IN  Lines(configFiles[f[1]][PreferenceNames[f[2]]].text)
                 \o LinesByRank(files \ {f}, rank)

RootMajorRank == [f \in ExistingLists |-> (f[1] - 1) * Len(PreferenceNames) + f[2]]
RootMajorLines == LinesByRank(ExistingLists, RootMajorRank)
LinesOfKind(perDesktop) ==
    LinesByRank({f \in ExistingLists : IsPerDesktop(f) = perDesktop}, RootMajorRank)

Count(q, x) == Cardinality({i \in DOMAIN q : q[i] = x})
SameBag(p, q) == \A x \in Range(p) \cup Range(q) : Count(p, x) = Count(q, x)

\* The command string as the specification words it.
RECURSIVE WithArguments(_, _)
WithArguments(str, as) ==
    IF as = <<>> THEN str ELSE WithArguments(str \o " " \o Head(as), Tail(as))
Flag(attrs) ==
    IF "X-ExecArg" \in DOMAIN attrs THEN attrs["X-ExecArg"]
    ELSE IF "ExecArg" \in DOMAIN attrs THEN attrs["ExecArg"]
    ELSE "-e"
ExpectedString(attrs, as) ==
    IF as = <<>> THEN attrs["Exec"]
    ELSE WithArguments(attrs["Exec"] \o " " \o Flag(attrs), as)

-----------------------------------------------------------------------------
(* C1: the launcher is run on the candidates that pass the filter, in       *)
(* candidate order: the calls of handle follow the merged sequence, run is  *)
(* reached exactly for the first occurrences that pass, no id is run        *)
(* twice, and a launch that fails to start does not end the run: the run    *)
(* ends only by a replacement, a panic, a fatal error or the end of the     *)
(* sequence.                                                                *)
C1_AttemptsInCandidateOrder ==
    /\ IsPrefix(TraceIds, Merged)
    /\ \A i \in DOMAIN trace :
           Ran(i) <=> (FirstOccurrence(i) /\ PassesFilter(trace[i].id))
    /\ \A i, j \in DOMAIN trace :
           (i < j /\ Ran(i) /\ Ran(j)) => trace[i].id # trace[j].id
    /\ (trace # <<>> /\ Last.step = "exec_failed") =>
           \/ Walking
           \/ pc = "exit" /\ error # {}
           \/ pc = "exit" /\ TraceIds = Merged

\* A rejected, B passes and fails to start, C passes next and is attempted.
C1_Witness ==
    \E i, j, k \in DOMAIN trace :
        /\ i < j /\ j < k
        /\ trace[i].step = "rejected"
        /\ trace[j].step = "exec_failed"
        /\ Attempted(k)
        /\ \A m \in (j + 1)..(k - 1) : ~Ran(m)
        /\ \E m \in (j + 1)..(k - 1) : trace[m].step = "duplicate"

(* C2: a descriptor that passes the filter and has no Exec fails only its  *)
(* candidate: the run is not aborted and its status is not made non-zero.   *)
C2_MissingExecSkipsCandidate ==
    \A i \in DOMAIN trace :
        (\E f \in trace[i].file : entry(f, desktops) # {} /\ "Exec" \notin DOMAIN f.attrs)
            => (pc # "panicked" /\ exitStatus \subseteq {ExitSuccess})

(* C3: the candidates processed (resolved, filtered, launched) hold no id   *)
(* twice and are the first occurrences, in order, of the merged sequence:   *)
(* configured before present, each source in its order, and a later id     *)
(* equal to an earlier one is dropped without being resolved.              *)
C3_ProcessedOnceInFirstOccurrenceOrder ==
    /\ IsPrefix(TraceIds, Merged)
    /\ \A i \in DOMAIN trace :
           trace[i].source = (IF i <= Len(Configured) THEN "configured" ELSE "present")
    /\ \A i, j \in DOMAIN trace :
           (i < j /\ trace[i].id = trace[j].id) =>
               (trace[j].step = "duplicate" /\ trace[j].file = {} /\ trace[j].cmd = {})
    /\ \A i \in DOMAIN trace :
           trace[i].step = "duplicate" => ~FirstOccurrence(i)
    /\ \A i \in DOMAIN trace :
           (trace[i].step # "duplicate" /\ trace[i].file = {}) => FindDataFile(trace[i].id) = {}

\* An id of a preference list is met again among the present entries and
\* dropped there, and the walk goes on to a new id behind it.
C3_Witness ==
    \E i, j, k \in DOMAIN trace :
        /\ i < j /\ j < k
        /\ trace[i].source = "configured" /\ trace[i].step # "duplicate"
        /\ trace[j].source = "present" /\ trace[j].id = trace[i].id
        /\ trace[j].step = "duplicate"
        /\ trace[k].step # "duplicate"

(* C5: a run that ends with no launch having replaced the process, and no  *)
(* fatal error of the collection, ends with status 0 and no error shown.    *)
C5_NoLaunchExitsZero ==
    (Ended /\ pc # "replaced" /\ error = {}) => exitStatus = {ExitSuccess}

(* C9: a replacement is the last thing the run does: it is the last call   *)
(* of handle, nothing is inserted into seen after it, the list walked is   *)
(* not replaced by a listing of the data roots, and main neither returns   *)
(* nor fails.                                                              *)
C9_ReplacementEndsTheRun ==
    \A i \in DOMAIN trace :
        trace[i].step = "replaced" =>
            /\ i = Len(trace)
            /\ pc = "replaced"
            /\ exitStatus = {} /\ error = {}
            /\ seen = {Components(trace[j].id) : j \in 1..i}
            /\ trace[i].source = "configured" => (entries = Configured /\ idx = i + 1)
            /\ trace[i].source = "present" => idx = i - Len(Configured) + 1

\* A configured candidate replaces the process while the data roots hold
\* candidates not yet seen.
C9_Witness ==
    /\ pc = "replaced"
    /\ Last.source = "configured"
    /\ Len(trace) < Len(Configured)
    /\ \E i \in DOMAIN Discovered : Components(Discovered[i]) \notin seen

(* C10: a preference list that exists and cannot be read ends the run      *)
(* before any candidate is handled; the data roots are listed only when    *)
(* every configured candidate has been handled, so a listing error finds   *)
(* each of them dropped, skipped, rejected or failed to start.             *)
C10_FatalErrorsAroundTheWalk ==
    /\ (\E r \in DOMAIN configFiles : \E n \in Range(config_file_names(Desktops.ids)) :
            n \in DOMAIN configFiles[r] /\ ~configFiles[r][n].readable)
          => (trace = <<>> /\ seen = {} /\ pc \in {"main", "configured_entries", "exit"})
    /\ (\E e \in error : e.from = "configured_entries") => trace = <<>>
    /\ (pc = "handle_present" \/ \E e \in error : e.from = "present_entries") =>
          /\ Len(trace) >= Len(Configured)
          /\ \A i \in 1..Len(Configured) :
                /\ trace[i].id = Configured[i]
                /\ trace[i].step \in {"duplicate", "not_found", "rejected", "exec_failed"}
                /\ (FirstOccurrence(i) /\ PassesFilter(trace[i].id))
                      => trace[i].step = "exec_failed"

\* The listing fails after a configured candidate was launched and failed.
C10_Witness ==
    /\ \E e \in error : e.from = "present_entries"
    /\ \E i \in DOMAIN trace : trace[i].step = "exec_failed"
    /\ \E i \in DOMAIN trace : trace[i].step = "rejected"

(* C4, as claimed: the ids of the per-desktop lists, of every config root,  *)
(* come before the ids of the generic lists.                                *)
C4_PerDesktopBeforeGeneric ==
    (pc = "handle_configured") =>
        LET m == Len(LinesOfKind(TRUE))
        IN  /\ Len(entries) = m + Len(LinesOfKind(FALSE))
            /\ SameBag(SubSeq(entries, 1, m), LinesOfKind(TRUE))
            /\ SameBag(SubSeq(entries, m + 1, Len(entries)), LinesOfKind(FALSE))

(* C4, amended: the configured ids are ordered by config root first: for   *)
(* each root in priority order, the ids of its per-desktop lists in        *)
(* desktop order, then those of its generic list; the discovered ids come  *)
(* after all of them.                                                      *)
C4_RootThenKindOrder ==
    LET configured == RootMajorLines IN
    /\ (pc = "handle_configured") => entries = configured
    /\ (pc = "handle_present") => entries = Discovered
    /\ IsPrefix(TraceIds, configured \o Discovered)
    /\ \A i \in DOMAIN trace :
           trace[i].source = (IF i <= Len(configured) THEN "configured" ELSE "present")

\* The generic list of the first root and a per-desktop list of the second
\* name different ids, and both have been handled.
C4_Witness ==
    /\ pc = "handle_present"
    /\ XDG_TERMINALS_LIST \in DOMAIN configFiles[1]
    /\ \E n \in DOMAIN configFiles[2] :
          /\ n # XDG_TERMINALS_LIST
          /\ n \in Range(PreferenceNames)
          /\ configFiles[2][n].text # configFiles[1][XDG_TERMINALS_LIST].text
    /\ Len(trace) >= Len(RootMajorLines)

(* C6: a descriptor that is found and parses passes the filter iff Hidden  *)
(* is not "true", no id of NotShowIn is a current desktop, OnlyShowIn is   *)
(* absent or one of its ids is a current desktop, and TryExec is absent or *)
(* resolves; Hidden=true rejects whatever else is set, and a present       *)
(* OnlyShowIn rejects when there is no desktop.                            *)
C6_FilterAcceptsIff ==
    \A i \in DOMAIN trace : \A f \in trace[i].file :
        f.parses =>
            /\ Ran(i) <=> Accepts(f.attrs, Tokens(XDG_CURRENT_DESKTOP.value, ":"))
            /\ ~Ran(i) <=> trace[i].step = "rejected"
            /\ ("Hidden" \in DOMAIN f.attrs /\ f.attrs["Hidden"] = "true") => ~Ran(i)
            /\ ("OnlyShowIn" \in DOMAIN f.attrs /\ desktops = <<>>) => ~Ran(i)

\* A descriptor is accepted on its second OnlyShowIn id while a NotShowIn
\* and a TryExec are present too.
C6_Witness ==
    \E i \in DOMAIN trace : \E f \in trace[i].file :
        /\ Ran(i)
        /\ {"Hidden", "NotShowIn", "OnlyShowIn", "TryExec"} \subseteq DOMAIN f.attrs
        /\ f.attrs["OnlyShowIn"] = "K;G;"
        /\ Len(desktops) = 2

(* C7: the command of a launch attempt is sh -c <string>, the string being *)
(* Exec alone when there are no arguments, else Exec, the flag (X-ExecArg, *)
(* else exec_arg, else -e) and the arguments, each after one space.         *)
C7_ShellCommandString ==
    \A i \in DOMAIN trace :
        /\ Attempted(i) <=> trace[i].cmd # {}
        /\ \A f \in trace[i].file : \A c \in trace[i].cmd :
              /\ c = <<"sh", "-c", ExpectedString(f.attrs, argv)>>
              /\ (f.attrs = ("Exec" :> "foo-term") /\ argv = <<"vim", "file.txt">>)
                    => c[3] = "foo-term -e vim file.txt"
              /\ (f.attrs["Exec"] = "foo-term" /\ argv = <<>>) => c[3] = "foo-term"

\* A launch with two arguments of a descriptor that sets both flags.
C7_Witness ==
    \E i \in DOMAIN trace : \E f \in trace[i].file :
        /\ Attempted(i)
        /\ {"ExecArg", "X-ExecArg"} \subseteq DOMAIN f.attrs
        /\ argv = <<"vim", "file.txt">>
        /\ trace[i].cmd = {<<"sh", "-c", "foo-term -- vim file.txt">>}

(* C8, as claimed: every set value gives the list of its non-empty tokens  *)
(* and no error.                                                           *)
C8_EverySetValueSplits ==
    (XDG_CURRENT_DESKTOP.kind # "unset" /\ pc # "main") =>
        /\ desktops = Tokens(XDG_CURRENT_DESKTOP.value, ":")
        /\ \A e \in error : e.type # "VarError"

(* C8, amended: every set value that is valid Unicode gives the list of    *)
(* its non-empty tokens between the colons, in order and unchanged; a      *)
(* value that is unset or not valid Unicode fails the run before any       *)
(* candidate is examined.                                                  *)
C8_UnicodeValueSplits ==
    /\ (XDG_CURRENT_DESKTOP.kind = "unicode" /\ pc # "main") =>
          /\ desktops = Tokens(XDG_CURRENT_DESKTOP.value, ":")
          /\ \A i \in DOMAIN desktops : desktops[i] # ""
          /\ \A e \in error : e.type # "VarError"
    /\ (XDG_CURRENT_DESKTOP.kind # "unicode" /\ pc # "main") =>
          /\ pc = "exit"
          /\ error = {[type |-> "VarError", from |-> "desktops"]}
          /\ exitStatus = {ExitFailure}
          /\ trace = <<>> /\ seen = {} /\ entries = <<>>

\* A value with empty tokens before, between and after two ids has been
\* read and a candidate handled.
C8_Witness ==
    /\ XDG_CURRENT_DESKTOP = Unicode(":k:G:")
    /\ desktops = <<"k", "G">>
    /\ trace # <<>>

=============================================================================
